---- MODULE Spec2Model ----
(***************************************************************************)
(* Material Similarity Search (src/app.py): a Streamlit script that loads  *)
(* a spreadsheet of materials once (st.cache_data), normalizes the         *)
(* descriptions, and on every rerun scores the search term against every   *)
(* material, filters by a threshold, sorts by score and keeps the top      *)
(* rows.                                                                   *)
(*                                                                         *)
(* Text is a sequence of one-character strings.  A score is kept in        *)
(* hundredths of a percent (0..10000); for strings whose lengths sum to    *)
(* less than 100 this keeps every order and every tie of the exact value.  *)
(***************************************************************************)
EXTENDS Integers, Sequences, FiniteSets, TLC

\* ------------------------------------------------------------------ bounds

\* longest search term typed into the search box
MaxLen == 2
\* most rows of the spreadsheet (duplicate codes and empty cells included)
MaxRows == 2
\* most materials of a catalog that is searched with every search term
MaxCatalog == 3

\* ------------------------------------------------------------- characters

\* the spreadsheet cell that is empty (pandas NaN); not a text
NaN == <<"NaN">>

Whitespace == {" ", "\t"}

\* the characters of the class [–\-/,()] of clean_text
Punctuation == {"-", "/", ",", "(", ")"}

\* code points, for the order of characters that sorted() uses
Ord(c) ==
  CASE c = "\t" -> 9  [] c = " " -> 32 [] c = "!" -> 33 [] c = "(" -> 40
    [] c = ")" -> 41  [] c = "," -> 44 [] c = "-" -> 45 [] c = "/" -> 47
    [] c = "1" -> 49  [] c = "A" -> 65 [] c = "B" -> 66 [] c = "a" -> 97
    [] c = "b" -> 98

\* str.upper on one character
upper(c) == CASE c = "a" -> "A" [] c = "b" -> "B" [] OTHER -> c

Max(x, y) == IF x >= y THEN x ELSE y
Min(x, y) == IF x <= y THEN x ELSE y

\* ------------------------------------------------------------- clean_text

\* re.sub(r"\s+", " ", text): every run of whitespace becomes one space
RECURSIVE CollapseWhitespace(_)
CollapseWhitespace(s) ==
  IF s = <<>> THEN <<>>
  ELSE IF Head(s) \in Whitespace
       THEN IF Len(s) > 1 /\ s[2] \in Whitespace
            THEN CollapseWhitespace(Tail(s))
            ELSE <<" ">> \o CollapseWhitespace(Tail(s))
       ELSE <<Head(s)>> \o CollapseWhitespace(Tail(s))

RECURSIVE LStrip(_)
LStrip(s) ==
  IF s # <<>> /\ Head(s) \in Whitespace THEN LStrip(Tail(s)) ELSE s

RECURSIVE RStrip(_)
RStrip(s) ==
  IF s # <<>> /\ s[Len(s)] \in Whitespace
  THEN RStrip(SubSeq(s, 1, Len(s) - 1)) ELSE s

\* str.strip()
Strip(s) == RStrip(LStrip(s))

\* re.sub(r"[–\-/,()]", " ", text)
SubPunctuation(s) ==
  [i \in 1..Len(s) |-> IF s[i] \in Punctuation THEN " " ELSE s[i]]

Upper(s) == [i \in 1..Len(s) |-> upper(s[i])]

clean_text(text) ==
  IF text = NaN THEN <<>>
  ELSE Strip(CollapseWhitespace(SubPunctuation(Upper(text))))

\* ------------------------------------------------------- rapidfuzz.fuzz.*

\* length of the longest common subsequence
RECURSIVE LCS(_, _)
LCS(a, b) ==
  IF a = <<>> \/ b = <<>> THEN 0
  ELSE IF Head(a) = Head(b) THEN 1 + LCS(Tail(a), Tail(b))
  ELSE Max(LCS(Tail(a), b), LCS(a, Tail(b)))

\* Indel distance: insertions and deletions turning a into b
IndelDistance(a, b) == Len(a) + Len(b) - 2 * LCS(a, b)

\* 100 - 100 * dist / lensum, in hundredths
NormDistance(dist, lensum) ==
  IF lensum = 0 THEN 10000 ELSE (10000 * (lensum - dist)) \div lensum

\* fuzz.ratio
Ratio(a, b) == NormDistance(IndelDistance(a, b), Len(a) + Len(b))

\* str.split(): the maximal runs of non-whitespace
RECURSIVE SplitFrom(_, _)
SplitFrom(s, word) ==
  IF s = <<>> THEN (IF word = <<>> THEN <<>> ELSE <<word>>)
  ELSE IF Head(s) \in Whitespace
       THEN (IF word = <<>> THEN <<>> ELSE <<word>>) \o SplitFrom(Tail(s), <<>>)
       ELSE SplitFrom(Tail(s), Append(word, Head(s)))

Split(s) == SplitFrom(s, <<>>)

\* a < b in the order of Python strings
RECURSIVE TextLess(_, _)
TextLess(a, b) ==
  IF b = <<>> THEN FALSE
  ELSE IF a = <<>> THEN TRUE
  ELSE IF Head(a) = Head(b) THEN TextLess(Tail(a), Tail(b))
  ELSE Ord(Head(a)) < Ord(Head(b))

\* sorted(tokens) of a set of distinct tokens
RECURSIVE SortedTokens(_)
SortedTokens(T) ==
  IF T = {} THEN <<>>
  ELSE LET m == CHOOSE t \in T : \A u \in T \ {t} : TextLess(t, u)
       IN <<m>> \o SortedTokens(T \ {m})

\* insertion of one token into a sorted sequence (duplicates kept)
RECURSIVE InsertToken(_, _)
InsertToken(t, s) ==
  IF s = <<>> THEN <<t>>
  ELSE IF TextLess(Head(s), t) \/ Head(s) = t
       THEN <<Head(s)>> \o InsertToken(t, Tail(s))
       ELSE <<t>> \o s

\* sorted(tokens) of a sequence of tokens
RECURSIVE SortedSeq(_)
SortedSeq(s) ==
  IF s = <<>> THEN <<>> ELSE InsertToken(Head(s), SortedSeq(Tail(s)))

\* " ".join(tokens)
RECURSIVE Join(_)
Join(toks) ==
  IF toks = <<>> THEN <<>>
  ELSE IF Len(toks) = 1 THEN toks[1]
  ELSE toks[1] \o <<" ">> \o Join(Tail(toks))

Range(s) == {s[i] : i \in 1..Len(s)}

\* fuzz.token_sort_ratio
TokenSortRatio(a, b) ==
  Ratio(Join(SortedSeq(Split(a))), Join(SortedSeq(Split(b))))

\* fuzz.token_set_ratio
TokenSetRatio(a, b) ==
  LET tokens_a == Range(Split(a))
      tokens_b == Range(Split(b))
      intersect == tokens_a \cap tokens_b
      diff_ab == tokens_a \ tokens_b
      diff_ba == tokens_b \ tokens_a
      diff_ab_joined == Join(SortedTokens(diff_ab))
      diff_ba_joined == Join(SortedTokens(diff_ba))
      ab_len == Len(diff_ab_joined)
      ba_len == Len(diff_ba_joined)
      sect_len == Len(Join(SortedTokens(intersect)))
      sep == IF sect_len # 0 THEN 1 ELSE 0
      sect_ab_len == sect_len + sep + ab_len
      sect_ba_len == sect_len + sep + ba_len
      result == NormDistance(IndelDistance(diff_ab_joined, diff_ba_joined),
                             sect_ab_len + sect_ba_len)
      sect_ab_ratio == NormDistance(sep + ab_len, sect_len + sect_ab_len)
      sect_ba_ratio == NormDistance(sep + ba_len, sect_len + sect_ba_len)
  IN IF tokens_a = {} \/ tokens_b = {} THEN 0
     ELSE IF intersect # {} /\ (diff_ab = {} \/ diff_ba = {}) THEN 10000
     ELSE IF sect_len = 0 THEN result
     ELSE Max(result, Max(sect_ab_ratio, sect_ba_ratio))

SetMax(S) == CHOOSE x \in S : \A y \in S : y <= x

\* the windows of the longer text the shorter one is aligned with: its
\* prefixes shorter than the needle, every full-length window, its suffixes
\* (the library skips windows that cannot hold the maximum; the maximum is
\* taken over all of them here)
Windows(long, n) ==
  {SubSeq(long, 1, i) : i \in 1..(n - 1)}
    \cup {SubSeq(long, i, i + n - 1) : i \in 1..(Len(long) - n + 1)}
    \cup {SubSeq(long, i, Len(long)) : i \in (Len(long) - n + 2)..Len(long)}

PartialRatioImpl(short, long) ==
  IF short = <<>> THEN 0
  ELSE SetMax({Ratio(short, w) : w \in Windows(long, Len(short))} \cup {0})

\* fuzz.partial_ratio
PartialRatio(a, b) ==
  IF a = <<>> /\ b = <<>> THEN 10000
  ELSE IF Len(a) < Len(b) THEN PartialRatioImpl(a, b)
  ELSE IF Len(b) < Len(a) THEN PartialRatioImpl(b, a)
  ELSE Max(PartialRatioImpl(a, b), PartialRatioImpl(b, a))

Methods == {"token_set", "token_sort", "partial", "simple"}

similarity_score(a, b, method) ==
  IF method = "token_set" THEN TokenSetRatio(a, b)
  ELSE IF method = "token_sort" THEN TokenSortRatio(a, b)
  ELSE IF method = "partial" THEN PartialRatio(a, b)
  ELSE Ratio(a, b)

\* ------------------------------------------------------------------ config

MATERIAL_CODE_COL == "Material"
MATERIAL_NAME_COL == "Material Description"

\* ------------------------------------------------------------------- state

VARIABLES
  source,         \* the spreadsheet EXCEL_FILE as it is on disk
  cache,          \* st.cache_data's entry for load_data()
  shared,         \* whether df_master is the very object the cache holds
  pc,             \* where the script run is
  df_master,      \* the run's DataFrame (or None)
  search_term,    \* the text input
  match_method,   \* sidebar: matching algorithm
  min_similarity, \* sidebar: minimum similarity (%)
  max_results,    \* sidebar: max results to display
  case_sensitive, \* sidebar: case sensitive search
  clean_query,    \* the string that is scored
  results         \* the ranked result of the run's query

widgets == <<search_term, match_method, min_similarity, max_results, case_sensitive>>
vars == <<source, cache, shared, pc, df_master, search_term, match_method,
          min_similarity, max_results, case_sensitive, clean_query, results>>

\* a name the run has not bound, None, and a DataFrame
Unbound == [kind |-> "unbound", rows |-> <<>>]
None == [kind |-> "none", rows |-> <<>>]
DataFrame(rows) == [kind |-> "df", rows |-> rows]

\* ------------------------------------------------------------------ inputs

RECURSIVE SeqsUpTo(_, _)
SeqsUpTo(S, n) ==
  IF n = 0 THEN {<<>>}
  ELSE LET shorter == SeqsUpTo(S, n - 1)
       IN shorter \cup {Append(s, x) : s \in {t \in shorter : Len(t) = n - 1}, x \in S}

Sheet(rows) ==
  [status |-> "ok", columns |-> {MATERIAL_CODE_COL, MATERIAL_NAME_COL}, rows |-> rows]

\* the file is missing, is not a spreadsheet, or lacks a required column
BadSources ==
  {[status |-> st, columns |-> {}, rows |-> <<>>] : st \in {"not_found", "corrupt"}}
    \cup {[status |-> "ok", columns |-> c, rows |-> <<>>] :
            c \in {{}, {MATERIAL_CODE_COL}, {MATERIAL_NAME_COL}}}

Codes == {"M1", "M2"}

\* raw cells of the description column
Descriptions == {NaN, <<"-">>, <<"a">>, <<"A">>, <<"a", "!">>, <<"a", " ", "B">>}

RawRows == [Material : Codes, Description : Descriptions]

\* the files of the load specification: any rows, codes repeated or not
Sources == BadSources \cup {Sheet(r) : r \in SeqsUpTo(RawRows, MaxRows)}

\* the search terms of the load specification
SampleTerms == {<<"a">>, <<" ">>, <<"B", " ", "a">>}

CodeName(i) == "M" \o ToString(i)

CatalogDescriptions == {<<"a">>, <<"B", "-", "a">>}

\* the files of the query specification: every material has a code of its own
QuerySources ==
  {[status |-> "not_found", columns |-> {}, rows |-> <<>>]}
    \cup {Sheet([i \in 1..Len(d) |-> [Material |-> CodeName(i), Description |-> d[i]]]) :
            d \in SeqsUpTo(CatalogDescriptions, MaxCatalog)}

\* the search terms of the query specification: every text up to MaxLen
Alphabet == {"a", "B", " "}
SearchTerms == SeqsUpTo(Alphabet, MaxLen) \cup {<<"-">>, <<"a", "!">>, <<"\t">>}

\* slider positions tried (the slider offers every integer of 0..100)
MinSimilarities == {0, 50, 100}

\* the selectbox offers 50, 100, 200 and 500, which all keep every row of a
\* catalog of a few rows; 1 and 2 make the truncation happen
MaxResultsOptions == {1, 2, 50}

\* --------------------------------------------------------------- load_data

\* df[df["CLEAN_NAME"] != ""]
RECURSIVE NonEmptyNames(_)
NonEmptyNames(rows) ==
  IF rows = <<>> THEN <<>>
  ELSE IF Head(rows).CLEAN_NAME # <<>>
       THEN <<Head(rows)>> \o NonEmptyNames(Tail(rows))
       ELSE NonEmptyNames(Tail(rows))

\* .drop_duplicates(subset=[MATERIAL_CODE_COL]): the first row of each code
RECURSIVE DropDuplicatesFrom(_, _)
DropDuplicatesFrom(rows, seen) ==
  IF rows = <<>> THEN <<>>
  ELSE IF Head(rows).Material \in seen
       THEN DropDuplicatesFrom(Tail(rows), seen)
       ELSE <<Head(rows)>> \o DropDuplicatesFrom(Tail(rows), seen \cup {Head(rows).Material})

drop_duplicates(rows) == DropDuplicatesFrom(rows, {})

\* df["CLEAN_NAME"] = df[MATERIAL_NAME_COL].apply(clean_text); idx is the
\* row's label in the DataFrame's index, its place in the sheet
WithCleanName(rows) ==
  [i \in 1..Len(rows) |->
     [idx |-> i, Material |-> rows[i].Material, Description |-> rows[i].Description,
      CLEAN_NAME |-> clean_text(rows[i].Description)]]

\* faulty variant: the duplicates are dropped before the empty names
BuildDedupFirst(rows) == NonEmptyNames(drop_duplicates(WithCleanName(rows)))

\* the DataFrame load_data builds from a sheet that has both columns
Build(rows) == drop_duplicates(NonEmptyNames(WithCleanName(rows)))

\* faulty variant: a DataFrame is returned although a required column is missing
load_data_keeps_sheet(src) ==
  IF src.status = "not_found" THEN [value |-> None, error |-> "file not found"]
  ELSE IF src.status # "ok" THEN [value |-> None, error |-> "error loading file"]
  ELSE IF MATERIAL_CODE_COL \notin src.columns \/ MATERIAL_NAME_COL \notin src.columns
       THEN [value |-> DataFrame(<<>>), error |-> "required columns not found"]
  ELSE [value |-> DataFrame(Build(src.rows)), error |-> ""]

\* the body of load_data: what it returns and the st.error it shows
load_data(src) ==
  IF src.status = "not_found" THEN [value |-> None, error |-> "file not found"]
  ELSE IF src.status # "ok" THEN [value |-> None, error |-> "error loading file"]
  ELSE IF MATERIAL_CODE_COL \notin src.columns \/ MATERIAL_NAME_COL \notin src.columns
       THEN [value |-> None, error |-> "required columns not found"]
  ELSE [value |-> DataFrame(Build(src.rows)), error |-> ""]

EmptyCache == [filled |-> FALSE, value |-> Unbound, error |-> ""]

\* faulty variant: the cache hands out the object it holds (as
\* st.cache_resource does)
cache_hands_out_its_object == TRUE

\* @st.cache_data: the caller gets a copy of the stored value, never the
\* stored object itself
cache_data_shares == FALSE

\* ----------------------------------------------------------------- search

\* faulty variant: the case-sensitive option is ignored
QueryStringAlwaysClean(term, cs) == clean_text(term)

\* line 163
QueryString(term, cs) == IF ~cs THEN clean_text(term) ELSE Strip(term)

\* df_master["SIMILARITY"] = df_master["CLEAN_NAME"].apply(...)
WithSimilarity(rows, query, method) ==
  [i \in 1..Len(rows) |->
     [idx |-> rows[i].idx, Material |-> rows[i].Material,
      Description |-> rows[i].Description, CLEAN_NAME |-> rows[i].CLEAN_NAME,
      SIMILARITY |-> similarity_score(query, rows[i].CLEAN_NAME, method)]]

\* faulty variant: the boundary is exclusive
KeepAbove(score, minimum) == score > minimum * 100

\* SIMILARITY >= min_similarity
Keep(score, minimum) == score >= minimum * 100

RECURSIVE Filter(_, _)
Filter(rows, minimum) ==
  IF rows = <<>> THEN <<>>
  ELSE IF Keep(Head(rows).SIMILARITY, minimum)
       THEN <<Head(rows)>> \o Filter(Tail(rows), minimum)
       ELSE Filter(Tail(rows), minimum)

IndexOrders(n) == {p \in [1..n -> 1..n] : \A i, j \in 1..n : i # j => p[i] # p[j]}

\* the order sort_values is asked for: ascending=False
InOrder(x, y) == x.SIMILARITY >= y.SIMILARITY

\* .sort_values("SIMILARITY", ascending=False) with the default
\* kind="quicksort", which is not a stable sort: every arrangement of the
\* rows in descending order of score is a possible outcome
SortOutcomes(rows) ==
  {[i \in 1..Len(rows) |-> rows[p[i]]] :
     p \in {q \in IndexOrders(Len(rows)) :
              \A i \in 1..(Len(rows) - 1) : InOrder(rows[q[i]], rows[q[i + 1]])}}

\* .head(n)
head(rows, n) == SubSeq(rows, 1, Min(n, Len(rows)))

\* ----------------------------------------------------------------- actions

\* a run starts with no name bound and the widgets at their defaults
RunDefaults(df, sh, term, method, minimum, n, cs, query, res) ==
  /\ df = Unbound
  /\ sh = FALSE
  /\ term = <<>>
  /\ method = "token_set"
  /\ minimum = 50
  /\ n = 100
  /\ cs = FALSE
  /\ query = <<>>
  /\ res = Unbound

InitFrom(files) ==
  /\ source \in files
  /\ cache = EmptyCache
  /\ pc = "idle"
  /\ RunDefaults(df_master, shared, search_term, match_method, min_similarity,
                 max_results, case_sensitive, clean_query, results)

\* the file is replaced on disk before the first run or after a failed one
\* (once load_data has returned, the script never reads the file again)
SourceChanges(files) ==
  /\ pc \in {"idle", "stopped"}
  /\ \E s \in files : source' = s /\ s # source
  /\ UNCHANGED <<cache, shared, pc, df_master, widgets, clean_query, results>>

\* a script run starts (first visit, or any widget interaction): line 95
StartRun ==
  /\ pc \in {"idle", "stopped", "done"}
  /\ pc' = "loading"
  /\ RunDefaults(df_master', shared', search_term', match_method', min_similarity',
                 max_results', case_sensitive', clean_query', results')
  /\ UNCHANGED <<source, cache>>

\* lines 96-99: df_master = load_data() through the cache, st.stop() on None
LoadData ==
  /\ pc = "loading"
  /\ cache' = IF cache.filled THEN cache
              ELSE LET r == load_data(source)
                   IN [filled |-> TRUE, value |-> r.value, error |-> r.error]
  /\ df_master' = cache'.value
  /\ shared' = cache_data_shares
  /\ pc' = IF cache'.value = None THEN "stopped" ELSE "ready"
  /\ UNCHANGED <<source, widgets, clean_query, results>>

\* lines 161-176, a search term typed: score, filter, sort, truncate
Search(terms) ==
  /\ pc = "ready"
  /\ \E term \in terms \ {<<>>}, method \in Methods, minimum \in MinSimilarities,
        n \in MaxResultsOptions, cs \in BOOLEAN :
       LET query == QueryString(term, cs)
           scored == WithSimilarity(df_master.rows, query, method)
       IN /\ search_term' = term
          /\ match_method' = method
          /\ min_similarity' = minimum
          /\ max_results' = n
          /\ case_sensitive' = cs
          /\ clean_query' = query
          /\ df_master' = DataFrame(scored)
          /\ cache' = IF shared THEN [cache EXCEPT !.value = DataFrame(scored)] ELSE cache
          /\ \E sorted \in SortOutcomes(Filter(scored, minimum)) :
               results' = DataFrame(head(sorted, n))
  /\ pc' = "done"
  /\ UNCHANGED <<source, shared>>

\* lines 293-318: the search box is empty, nothing is searched
InitialState ==
  /\ pc = "ready"
  /\ pc' = "done"
  /\ UNCHANGED <<source, cache, shared, df_master, widgets, clean_query, results>>

\* the load specification: every file of a few rows, a few search terms
Init == InitFrom(Sources)
Next ==
  SourceChanges(Sources) \/ StartRun \/ LoadData \/ Search(SampleTerms) \/ InitialState
Spec == Init /\ [][Next]_vars

\* the query specification: catalogs of distinct materials, every search term
InitQuery == InitFrom(QuerySources)
NextQuery ==
  SourceChanges(QuerySources) \/ StartRun \/ LoadData \/ Search(SearchTerms) \/ InitialState
SpecQuery == InitQuery /\ [][NextQuery]_vars

\* the Catalog Index state the script is in
CatalogState ==
  IF pc = "idle" THEN "Unloaded"
  ELSE IF pc = "loading" THEN "Loading"
  ELSE IF pc = "stopped" THEN "Error"
  ELSE "Ready"

\* ------------------------------------------------------------------ claims

Indices(rows) == 1..Len(rows)

\* the rows of df_master that pass the threshold
Passing == {i \in Indices(df_master.rows) : df_master.rows[i].SIMILARITY >= min_similarity * 100}

Searched == pc = "done" /\ results.kind = "df"

\* C1: the ranked result of a query has at most max_results rows, every row
\* of it scores at least min_similarity (a row scoring exactly min_similarity
\* is kept: the result has as many rows as pass the threshold, up to
\* max_results), and the rows are in non-increasing order of score.
C1_RankedResult ==
  Searched =>
    LET r == results.rows
    IN /\ Len(r) <= max_results
       /\ \A i \in Indices(r) : r[i].SIMILARITY >= min_similarity * 100
       /\ \A i, j \in Indices(r) : i < j => r[i].SIMILARITY >= r[j].SIMILARITY
       /\ \A i \in Indices(r) : \E k \in Passing : df_master.rows[k] = r[i]
       /\ Len(r) = Min(max_results, Cardinality(Passing))

\* C1 witness: three materials score 100, 50, 50 against a threshold of 50
\* and two are asked for: the result is truncated and its last row sits on
\* the threshold.
C1_Witness ==
  /\ Searched
  /\ min_similarity = 50
  /\ max_results = 2
  /\ Cardinality(Passing) = 3
  /\ Len(results.rows) = 2
  /\ results.rows[1].SIMILARITY = 10000
  /\ results.rows[2].SIMILARITY = 5000

\* C2: rows of the result with equal scores are in catalog order, and when
\* the truncation cuts through rows of equal score the earliest of them in
\* catalog order are the ones kept.
C2_StableOrder ==
  Searched =>
    LET r == results.rows
    IN /\ \A i, j \in Indices(r) :
            (i < j /\ r[i].SIMILARITY = r[j].SIMILARITY) => r[i].idx < r[j].idx
       /\ \A i \in Indices(r) : \A k \in Passing :
            (df_master.rows[k].SIMILARITY = r[i].SIMILARITY
               /\ \A j \in Indices(r) : r[j].idx # df_master.rows[k].idx)
              => r[i].idx < df_master.rows[k].idx

\* C3: a search term whose normalized form is empty yields an empty result.
C3_EmptyQueryEmptyResult ==
  (pc = "done" /\ clean_text(search_term) = <<>>) => results.rows = <<>>

\* C4: a load that fails because the file cannot be read or lacks a required
\* column returns None, stores no DataFrame in the cache and stops the run
\* before any query: the index is in Error and nothing was searched.
C4_FailedLoadStops ==
  /\ [][(pc = "loading" /\ ~cache.filled /\ source \in BadSources)
          => (cache'.error # "" /\ pc' = "stopped")]_vars
  /\ [](cache.error # "" =>
          /\ cache.value = None
          /\ df_master \in {None, Unbound}
          /\ pc \in {"stopped", "loading"}
          /\ (pc = "stopped" => CatalogState = "Error" /\ df_master = None)
          /\ results = Unbound)

\* C4 witness: the sheet lacks a required column and the run has stopped.
C4_Witness ==
  /\ pc = "stopped"
  /\ source.status = "ok"
  /\ cache.error = "required columns not found"
  /\ df_master = None

\* C5: a load that yields no records never ends in Ready.
C5_EmptyDatasetIsError ==
  CatalogState = "Ready" => df_master.rows # <<>>

\* C6: every load request re-reads the source: what the run holds after the
\* load is what load_data makes of the file as it is then, so a load request
\* made once the file is valid ends in Ready.
C6_ReloadReadsSource ==
  [][(pc = "loading" /\ pc' # "loading")
       => (df_master' = load_data(source).value
             /\ (source \notin BadSources => CatalogState' = "Ready"))]_vars

\* the records of a DataFrame, in order, without the SIMILARITY column
Records(df) ==
  [i \in Indices(df.rows) |->
     [idx |-> df.rows[i].idx, Material |-> df.rows[i].Material,
      Description |-> df.rows[i].Description, CLEAN_NAME |-> df.rows[i].CLEAN_NAME]]

\* C7: evaluating a query leaves the snapshot (the DataFrame the cache
\* holds) as it was built: same records, same fields, same order; the run's
\* own copy keeps its records and their order.
C7_QueryKeepsSnapshot ==
  /\ [][(pc = "ready" /\ pc' = "done")
          => (cache' = cache /\ Records(df_master') = Records(df_master))]_vars
  /\ [][cache.filled => cache' = cache]_vars
  /\ [](cache.value.kind = "df" => cache.value.rows = Records(cache.value))

\* C7 witness: a query has added its SIMILARITY column to the run's copy,
\* and the snapshot has no such column.
C7_Witness ==
  /\ Searched
  /\ results.rows # <<>>
  /\ cache.value.rows # <<>>
  /\ "SIMILARITY" \in DOMAIN df_master.rows[1]
  /\ "SIMILARITY" \notin DOMAIN cache.value.rows[1]

\* the rows of the sheet whose normalized description is not empty
Named(raw) == {k \in Indices(raw) : clean_text(raw[k].Description) # <<>>}

\* C8: the snapshot built from a sheet has no empty normalized description
\* and no code twice; the record kept for a code is the first row of that
\* code among the rows with a non-empty normalized description; there are as
\* many records as distinct codes among those rows.  (The file is the one
\* the snapshot was built from: it changes only before a load succeeds.)
C8_BuildFirstSeenWins ==
  cache.value.kind = "df" =>
    LET snap == cache.value.rows
        raw == source.rows
    IN /\ \A i \in Indices(snap) : snap[i].CLEAN_NAME # <<>>
       /\ \A i, j \in Indices(snap) : i # j => snap[i].Material # snap[j].Material
       /\ \A i, j \in Indices(snap) : i < j => snap[i].idx < snap[j].idx
       /\ \A i \in Indices(snap) :
            /\ snap[i].idx \in Named(raw)
            /\ snap[i].Material = raw[snap[i].idx].Material
            /\ snap[i].Description = raw[snap[i].idx].Description
            /\ snap[i].CLEAN_NAME = clean_text(raw[snap[i].idx].Description)
            /\ \A k \in Named(raw) :
                 raw[k].Material = snap[i].Material => snap[i].idx <= k
       /\ Len(snap) = Cardinality({raw[k].Material : k \in Named(raw)})

\* C8 witness: the first row of a code has an empty description and a later
\* row of the same code has not: the later row is the record kept.
C8_Witness ==
  /\ cache.value.kind = "df"
  /\ Len(source.rows) >= 2
  /\ source.rows[1].Material = source.rows[2].Material
  /\ 1 \notin Named(source.rows)
  /\ \E i \in Indices(cache.value.rows) : cache.value.rows[i].idx = 2

\* the characters A-Z, 0-9 and space
Canonical(s) ==
  /\ \A i \in Indices(s) : s[i] \in {"A", "B", "1", " "}
  /\ s # <<>> => (s[1] # " " /\ s[Len(s)] # " ")
  /\ \A i \in 1..(Len(s) - 1) : ~(s[i] = " " /\ s[i + 1] = " ")

\* C9: the output of clean_text holds only A-Z, 0-9 and single spaces
\* between words: the normalized descriptions of the catalog and the
\* normalized search term.
C9_CharsetClosure ==
  /\ Canonical(clean_text(search_term))
  /\ \A i \in Indices(cache.value.rows) : Canonical(cache.value.rows[i].CLEAN_NAME)

====
